---------------------------- MODULE Spec2Model ----------------------------
(***************************************************************************)
(* A model of jobs_daily.py: the daily job search and mail digest.         *)
(*                                                                         *)
(* A Python str is a sequence of one-character strings, so that strip(),   *)
(* lower(), the `in` substring test and re.search are computed character   *)
(* by character.  Text that the program itself emits (HTML markup, the     *)
(* CSV header, log lines) is kept as whole multi-character atoms.          *)
(***************************************************************************)
EXTENDS Integers, Sequences, FiniteSets, TLC

(***************************************************************************)
(* Python values                                                           *)
(***************************************************************************)
\* Python's None.  Its single atom is not a character, so None differs from
\* every str, the empty str included.
None == <<"None">>

\* Truth value of an optional str: None and "" are falsy.
Truthy(x) == x # None /\ x # <<>>

\* `a or b`
Or(a, b) == IF Truthy(a) THEN a ELSE b

UpperCase == <<"A","B","C","D","E","F","G","H","I","J","K","L","M",
               "N","O","P","Q","R","S","T","U","V","W","X","Y","Z">>
LowerCase == <<"a","b","c","d","e","f","g","h","i","j","k","l","m",
               "n","o","p","q","r","s","t","u","v","w","x","y","z">>

\* str.lower() on one character
LowerChar(c) ==
    IF \E k \in 1..26 : UpperCase[k] = c
    THEN LowerCase[CHOOSE k \in 1..26 : UpperCase[k] = c]
    ELSE c

\* str.lower()
Lower(s) == [k \in 1..Len(s) |-> LowerChar(s[k])]

IsSpace(c) == c \in {" ", "\t", "\n", "\r", "\f"}

\* str.strip(): drop leading and trailing whitespace
Strip(s) ==
    LET keep == {k \in 1..Len(s) : ~IsSpace(s[k])}
    IN  IF keep = {} THEN <<>>
        ELSE LET lo == CHOOSE k \in keep : \A m \in keep : k <= m
                 hi == CHOOSE k \in keep : \A m \in keep : k >= m
             IN  SubSeq(s, lo, hi)

\* `sub in s` for two str
Contains(sub, s) ==
    \E i \in 1..(Len(s) - Len(sub) + 1) : SubSeq(s, i, i + Len(sub) - 1) = sub

(***************************************************************************)
(* Regular expressions: the syntax tree re.compile builds, and re.search   *)
(* with re.IGNORECASE.                                                     *)
(***************************************************************************)
Lit(c)   == [t |-> "lit", c |-> c]
Cat(rs)  == [t |-> "cat", rs |-> rs]
Alt(rs)  == [t |-> "alt", rs |-> rs]
Star(r)  == [t |-> "star", r |-> r]
Opt(r)   == [t |-> "opt", r |-> r]
\* a run of literal characters
Word(s)  == Cat([k \in 1..Len(s) |-> Lit(s[k])])

RECURSIVE Ends(_, _, _), EndsCat(_, _, _, _), EndsStar(_, _, _, _)
\* The positions at which a match of r that starts at position i of s can end
\* (one past its last character).  Letters compare without case.
Ends(r, s, i) ==
    CASE r.t = "lit"  -> IF i <= Len(s) /\ LowerChar(s[i]) = LowerChar(r.c)
                         THEN {i + 1} ELSE {}
      [] r.t = "cat"  -> EndsCat(r.rs, 1, s, {i})
      [] r.t = "alt"  -> UNION {Ends(r.rs[k], s, i) : k \in 1..Len(r.rs)}
      [] r.t = "opt"  -> {i} \cup Ends(r.r, s, i)
      [] r.t = "star" -> EndsStar(r.r, s, {i}, {i})
EndsCat(rs, k, s, from) ==
    IF k > Len(rs) THEN from
    ELSE EndsCat(rs, k + 1, s, UNION {Ends(rs[k], s, j) : j \in from})
EndsStar(r, s, frontier, acc) ==
    LET nxt == UNION {Ends(r, s, j) : j \in frontier} \ acc
    IN  IF nxt = {} THEN acc ELSE EndsStar(r, s, nxt, acc \cup nxt)

\* pattern.search(s): a match starts somewhere in s
Search(r, s) == \E i \in 1..(Len(s) + 1) : Ends(r, s, i) # {}

\* r'\\b(entry|junior|werkstudent|trainee|associate|graduate)\\b': in a raw
\* string the two characters \\ reach re.compile as written, and there they
\* are an escaped backslash followed by the letter b.
ENTRY_LEVEL_PATTERN ==
    Cat(<<Lit("\\"), Lit("b"),
          Alt(<<Word(<<"e","n","t","r","y">>), Word(<<"j","u","n","i","o","r">>), Word(<<"w","e","r","k","s","t","u","d","e","n","t">>),
                Word(<<"t","r","a","i","n","e","e">>), Word(<<"a","s","s","o","c","i","a","t","e">>), Word(<<"g","r","a","d","u","a","t","e">>)>>),
          Lit("\\"), Lit("b")>>)

\* r'\\b(supply\\s*chain|procurement|logistics?\\s*coordinat(or|ion))\\b':
\* \\s* is a backslash followed by any number of the letter s.
PREFERRED_TERMS ==
    Cat(<<Lit("\\"), Lit("b"),
          Alt(<<Cat(<<Word(<<"s","u","p","p","l","y">>), Lit("\\"), Star(Lit("s")), Word(<<"c","h","a","i","n">>)>>),
                Word(<<"p","r","o","c","u","r","e","m","e","n","t">>),
                Cat(<<Word(<<"l","o","g","i","s","t","i","c">>), Opt(Lit("s")), Lit("\\"), Star(Lit("s")),
                      Word(<<"c","o","o","r","d","i","n","a","t">>), Alt(<<Word(<<"o","r">>), Word(<<"i","o","n">>)>>)>>)>>),
          Lit("\\"), Lit("b")>>)

(***************************************************************************)
(* Module constants of jobs_daily.py                                       *)
(***************************************************************************)
KEYWORDS == << <<"entry level supply chain">>, <<"junior supply chain">>,
               <<"entry level procurement">>, <<"junior procurement">>,
               <<"logistics coordinator">>, <<"junior logistics">>,
               <<"graduate supply chain">> >>
LOCATION == <<"Berlin, Germany">>
PAGES_PER_QUERY == 2
\* rows_sorted[:40]
DigestSize == 40

\* The params dict search_jobs builds for every request.
RequestParams(q, page, serpapi_key) ==
    [q        |-> <<"entry-level supply chain procurement logistics coordinator jobs Berlin">>,
     location |-> <<"Berlin, Germany">>,
     api_key  |-> <<"3dd91fc1be83e18b600192c57984a7ac35d28ac93a0680682c2c2c54b40a0139">>]

(***************************************************************************)
(* Bounds of the model                                                     *)
(***************************************************************************)
\* listings in one response
MaxJobs == 2
\* listings the search API returns during one run
MaxListings == 2

(***************************************************************************)
(* Inputs: the environment and what the search API may return              *)
(***************************************************************************)
BaseEnv == [SERPAPI_KEY   |-> <<"k","e","y","-","1">>,
            MAIL_FROM     |-> <<"m","e","@","x",".","d","e">>,
            MAIL_TO       |-> <<"y","o","u","@","y",".","d","e">>,
            SMTP_HOST     |-> <<"s","m","t","p",".","x",".","d","e">>,
            SMTP_PORT     |-> <<"2","5">>,
            SMTP_USERNAME |-> <<"u","s","e","r">>,
            SMTP_PASSWORD |-> <<"p","w">>]

\* The fully set environment, each variable in turn unset, an empty host, an
\* empty port, and a port that is not a number.
Envs == {BaseEnv}
        \cup {[BaseEnv EXCEPT ![v] = None] : v \in DOMAIN BaseEnv}
        \cup {[BaseEnv EXCEPT !.SMTP_HOST = <<>>], [BaseEnv EXCEPT !.SMTP_PORT = <<>>],
              [BaseEnv EXCEPT !.SMTP_PORT = <<"a","b","c">>]}

\* Job records as the API returns them: dicts, any key of which may be absent.
RawJunior ==
    [title |-> <<"J","u","n","i","o","r"," ","S","u","p","p","l","y"," ","C","h","a","i","n"," ","A","n","a","l","y","s","t">>, company_name |-> <<"A","c","m","e">>,
     related_links |-> << [link |-> <<"h","t","t","p",":","/","/","x","/","1">>] >>,
     detected_extensions |-> [posted_at |-> <<"2"," ","d","a","y","s"," ","a","g","o">>]]
RawLiteralJunior ==
    [title |-> <<"\\","b","j","u","n","i","o","r","\\","b"," ","b","u","y","e","r">>, company_name |-> <<" ","A","&","B"," ">>, via |-> <<"L","i","n","k","e","d","I","n">>,
     related_links |-> << [link |-> <<"h","t","t","p",":","/","/","x","/","2","?","a","=","1","&","b","=","\"","2","\"">>] >>,
     location |-> <<" ","B","e","r","l","i","n"," ">>,
     detected_extensions |-> [posted_at |-> <<"J","u","s","t"," ","p","o","s","t","e","d">>, salary |-> <<"4","0","k">>]]
RawLiteralJuniorAgain ==
    [title |-> <<"\\","b","j","u","n","i","o","r","\\","b"," ","b","u","y","e","r"," ">>, company |-> <<"A","&","B">>, description |-> <<"a","g","a","i","n">>,
     related_links |-> << [text |-> <<"a","p","p","l","y">>] >>,
     share_link |-> <<"h","t","t","p",":","/","/","x","/","2","?","a","=","1","&","b","=","\"","2","\"">>,
     detected_extensions |-> [posted |-> <<"3"," ","h","o","u","r","s"," ","a","g","o">>]]
RawEntryInDescription ==
    [title |-> <<"B","u","y","e","r"," ","<","m","/","f",">">>, job_id |-> <<"j","4">>,
     description |-> <<"a","n"," ","\\","b","E","N","T","R","Y","\\","b"," ","r","o","l","e">>]
RawSameKeyNoSignal ==
    [title |-> <<"B","u","y","e","r"," ","<","m","/","f",">">>, job_id |-> <<"j","4">>, description |-> <<"a"," ","s","e","n","i","o","r"," ","r","o","l","e">>]
RawLiteralSupplyChain ==
    [title |-> <<"\\","b","S","u","p","p","l","y","\\","s","s","C","h","a","i","n","\\","b"," ","l","e","a","d">>, company_name |-> <<"A","c","m","e">>,
     detected_extensions |-> [posted |-> <<"1"," ","d","a","y"," ","a","g","o">>]]
RawDomainInDescription ==
    [title |-> <<"P","l","a","n","n","e","r">>, company_name |-> <<"A","c","m","e">>, share_link |-> <<>>,
     description |-> <<"\\","b","l","o","g","i","s","t","i","c","s","\\","c","o","o","r","d","i","n","a","t","o","r","\\","b">>]

RawListings == {RawJunior, RawLiteralJunior, RawLiteralJuniorAgain, RawEntryInDescription,
                RawSameKeyNoSignal, RawLiteralSupplyChain, RawDomainInDescription}

RECURSIVE SeqsUpTo(_, _)
\* the sequences over S of length at most n
SeqsUpTo(S, n) ==
    IF n = 0 THEN {<<>>}
    ELSE LET shorter == SeqsUpTo(S, n - 1)
         IN  shorter \cup {Append(s, x) : s \in shorter, x \in S}

\* What search.as_dict() may be: a dict without "jobs_results", or one whose
\* "jobs_results" is a list of job records (possibly empty).
Responses == {[x \in {} |-> None]}
             \cup {[jobs_results |-> js] : js \in SeqsUpTo(RawListings, MaxJobs)}

(***************************************************************************)
(* dict.get                                                                *)
(***************************************************************************)
Get(d, k) == IF k \in DOMAIN d THEN d[k] ELSE None
GetOr(d, k, default) == IF k \in DOMAIN d THEN d[k] ELSE default
EmptyDict == [x \in {} |-> None]

(***************************************************************************)
(* search_jobs: what it computes for one job record j                      *)
(***************************************************************************)
Title(j)   == Or(Get(j, "title"), <<>>)
Company(j) == Or(Or(Get(j, "company_name"), Get(j, "company")), <<>>)
Via(j)     == Or(Get(j, "via"), <<>>)
Desc(j)    == Or(Get(j, "description"), <<>>)
Link(j) ==
    LET related == GetOr(j, "related_links", <<>>)
        link    == IF Len(related) > 0 THEN Get(related[1], "link") ELSE None
    IN  IF ~Truthy(link) THEN Or(Get(j, "share_link"), Get(j, "job_id")) ELSE link
\* a variant that keys on the untrimmed title and company
KeyUntrimmed(j) == <<Title(j), Company(j), Link(j)>>
Key(j) == <<Strip(Title(j)), Strip(Company(j)), Link(j)>>

\* a variant that looks for the entry-level signal in the title only
IsEntryTitleOnly(j) == Search(ENTRY_LEVEL_PATTERN, Title(j))
\* a variant that looks for the domain signal in the description
StrongMatchInDescription(j) == Search(PREFERRED_TERMS, Desc(j))
IsEntry(j) == Search(ENTRY_LEVEL_PATTERN, Title(j)) \/ Search(ENTRY_LEVEL_PATTERN, Desc(j))
StrongMatch(j) == Search(PREFERRED_TERMS, Title(j))

Row(j, q) ==
    LET detected_extensions == GetOr(j, "detected_extensions", EmptyDict)
    IN  [title    |-> Strip(Title(j)),
         company  |-> Strip(Company(j)),
         location |-> Strip(Or(Get(j, "location"), <<>>)),
         source   |-> Via(j),
         link     |-> Link(j),
         posted   |-> Or(Or(Get(detected_extensions, "posted_at"),
                            Get(detected_extensions, "posted")), <<>>),
         salary   |-> Get(detected_extensions, "salary"),
         query    |-> q]

RowKey(r) == <<r.title, r.company, r.link>>

(***************************************************************************)
(* main: score and sorted                                                  *)
(***************************************************************************)
\* score(r): the sort key, the negated number of points
score(r) ==
    LET s1 == IF Search(PREFERRED_TERMS, r.title) THEN 2 ELSE 0
        s2 == IF Search(ENTRY_LEVEL_PATTERN, r.title) THEN 1 ELSE 0
        posted == Lower(Or(r.posted, <<>>))
        s3 == IF Contains(<<"j","u","s","t">>, posted) THEN 3
              ELSE IF Contains(<<"d","a","y">>, posted) \/ Contains(<<"h","o","u","r">>, posted) THEN 2
              ELSE 0
    IN  -(s1 + s2 + s3)

\* a variant that puts index n in front of the indices of equal key
InsertBeforeEqual(keys, order, n) ==
    LET before == Cardinality({k \in 1..Len(order) : keys[order[k]] < keys[n]})
    IN  SubSeq(order, 1, before) \o <<n>> \o SubSeq(order, before + 1, Len(order))

\* One step of a stable ascending sort of indices by keys: index n goes
\* behind every index already placed whose key is not larger than its own.
InsertByKey(keys, order, n) ==
    LET before == Cardinality({k \in 1..Len(order) : keys[order[k]] <= keys[n]})
    IN  SubSeq(order, 1, before) \o <<n>> \o SubSeq(order, before + 1, Len(order))

RECURSIVE SortedIndices(_, _)
SortedIndices(keys, n) ==
    IF n = 0 THEN <<>> ELSE InsertByKey(keys, SortedIndices(keys, n - 1), n)

RECURSIVE MapScore(_)
\* [score(r) for r in rows]
MapScore(rows) ==
    IF rows = <<>> THEN <<>>
    ELSE Append(MapScore(SubSeq(rows, 1, Len(rows) - 1)), score(rows[Len(rows)]))

RECURSIVE Pick(_, _)
\* [rows[i] for i in order]
Pick(rows, order) ==
    IF order = <<>> THEN <<>>
    ELSE <<rows[Head(order)]>> \o Pick(rows, Tail(order))

SortByKeys(rows, keys) == Pick(rows, SortedIndices(keys, Len(keys)))

\* sorted(rows, key=score): the key of every row is computed once; the result
\* ascends by key and rows of equal key keep their input order.
sorted(rows) == SortByKeys(rows, MapScore(rows))

\* s[:n]
Take(s, n) == SubSeq(s, 1, IF Len(s) < n THEN Len(s) ELSE n)

(***************************************************************************)
(* to_html_table and the message send_email builds                        *)
(***************************************************************************)
TableHead ==
    <<"<table border=\"1\" cellpadding=\"6\" cellspacing=\"0\" style=\"border-collapse:collapse;font-family:Arial,sans-serif;font-size:14px;\">\n",
      "<tr><th>Title</th><th>Company</th><th>Location</th><th>Posted</th><th>Source</th><th>Link</th></tr>\n">>

\* One element of body: the f-string for row r.
TableRow(r) ==
    LET link_html == IF Truthy(r.link)
                     THEN <<"<a href=\"">> \o r.link \o <<"\">View</a>">>
                     ELSE <<>>
    IN  <<"<tr>">>
        \o <<"<td>">> \o r.title    \o <<"</td>">>
        \o <<"<td>">> \o r.company  \o <<"</td>">>
        \o <<"<td>">> \o r.location \o <<"</td>">>
        \o <<"<td>">> \o r.posted   \o <<"</td>">>
        \o <<"<td>">> \o r.source   \o <<"</td>">>
        \o <<"<td>">> \o link_html  \o <<"</td>">>
        \o <<"</tr>">>

RECURSIVE Join(_, _)
\* sep.join(parts)
Join(sep, parts) ==
    IF parts = <<>> THEN <<>>
    ELSE IF Len(parts) = 1 THEN parts[1]
    ELSE parts[1] \o sep \o Join(sep, Tail(parts))

\* "\\n" in the source is a backslash followed by the letter n.
to_html_table(rows) ==
    TableHead \o Join(<<"\\n">>, [k \in 1..Len(rows) |-> TableRow(rows[k])]) \o <<"</table>">>

\* date.today().isoformat()
Today == <<"<today>">>

Intro == <<"<p>Daily digest for entry-level Supply Chain / Procurement / Logistics Coordinator roles in Berlin (">>
         \o Today \o <<").</p>">>

NoRolesHtml == <<"<p>No matching roles found today.</p>">>

\* a variant without the branch for an empty digest
HtmlTableAlways(rows) == Intro \o to_html_table(rows)
Html(rows) == IF rows = <<>> THEN Intro \o NoRolesHtml ELSE Intro \o to_html_table(rows)

CsvFieldNames == <<"title", "company", "location", "posted", "source", "link", "query", "salary">>

\* csv.DictWriter: the header, then one record per row in fieldnames order;
\* None is written as the empty string.  Records are kept as lists of fields.
CsvCell(v)  == IF v = None THEN <<>> ELSE v
CsvFile(rows) ==
    <<CsvFieldNames>>
    \o [k \in 1..Len(rows) |->
          [f \in 1..Len(CsvFieldNames) |-> CsvCell(rows[k][CsvFieldNames[f]])]]

CsvName == <<"jobs_">> \o Today \o <<".csv">>

\* int(smtp_port): optional surrounding whitespace, an optional sign, digits
IsInt(s) ==
    LET t == Strip(s)
        d == IF Len(t) > 0 /\ t[1] \in {"+", "-"} THEN Tail(t) ELSE t
    IN  Len(d) > 0
        /\ \A k \in 1..Len(d) : d[k] \in {"0","1","2","3","4","5","6","7","8","9"}

\* (the em dash of the subject is written -- here)
Message(rows, sender, recipient, payload) ==
    [From       |-> sender,
     To         |-> recipient,
     Subject    |-> <<"Berlin Entry-Level Supply Chain Jobs -- ">> \o Today,
     html       |-> Html(rows),
     attachment |-> [filename |-> CsvName, encoding |-> "base64", payload |-> payload]]

(***************************************************************************)
(* State                                                                   *)
(***************************************************************************)
VARIABLES
    pc,          \* where main is: "main", "search", "send", "exit"
    env,         \* os.environ after load_dotenv()
    conf,        \* main's locals serpapi_key, sender, ..., password
    ki, page,    \* search_jobs: the (keyword, page) pair of the next request
    q,           \* search_jobs: the loop variable q
    jobs,        \* search_jobs: the job records of the response not yet visited
    all_rows,    \* search_jobs: all_rows
    seen,        \* search_jobs: seen
    top_rows,    \* main: top_rows
    requests,    \* the params of every serpapi.search call, in order
    delivered,   \* number of job records the API has returned so far
    csv_file,    \* content of jobs_<today>.csv in the working directory
    connections, \* number of smtplib.SMTP connections opened
    sent,        \* messages the SMTP server accepted
    stdout, stderr,
    exit_code

vars == <<pc, env, conf, ki, page, q, jobs, all_rows, seen, top_rows, requests,
          delivered, csv_file, connections, sent, stdout, stderr, exit_code>>

NoConf == [serpapi_key |-> None, sender |-> None, recipient |-> None,
           smtp_host |-> None, smtp_port |-> None, username |-> None,
           password |-> None]

Init ==
    /\ pc = "main"
    /\ env \in Envs
    /\ conf = NoConf
    /\ ki = 1 /\ page = 0
    /\ q = None
    /\ jobs = <<>>
    /\ all_rows = <<>>
    /\ seen = {}
    /\ top_rows = <<>>
    /\ requests = <<>>
    /\ delivered = 0
    /\ csv_file = None
    /\ connections = 0
    /\ sent = <<>>
    /\ stdout = <<>>
    /\ stderr = <<>>
    /\ exit_code = 0

\* An exception nobody catches: the traceback goes to stderr, exit status 1.
Raise(what) ==
    /\ pc' = "exit"
    /\ stderr' = Append(stderr, what)
    /\ exit_code' = 1

(***************************************************************************)
(* main, lines 161-177: read the configuration                             *)
(***************************************************************************)
\* os.getenv(name, default)
GetEnv(name, default) == IF env[name] = None THEN default ELSE env[name]

ReadConfig ==
    [serpapi_key |-> GetEnv("SERPAPI_KEY", None),
     sender      |-> GetEnv("MAIL_FROM", None),
     recipient   |-> GetEnv("MAIL_TO", None),
     smtp_host   |-> GetEnv("SMTP_HOST", <<"s","m","t","p",".","g","m","a","i","l",".","c","o","m">>),
     smtp_port   |-> GetEnv("SMTP_PORT", <<"5","8","7">>),
     username    |-> Or(GetEnv("SMTP_USERNAME", None), GetEnv("MAIL_FROM", None)),
     password    |-> GetEnv("SMTP_PASSWORD", None)]

\* all([sender, recipient, smtp_host, smtp_port, username, password])
AllMailSettings(c) ==
    /\ Truthy(c.sender) /\ Truthy(c.recipient) /\ Truthy(c.smtp_host)
    /\ Truthy(c.smtp_port) /\ Truthy(c.username) /\ Truthy(c.password)

MainConfig ==
    /\ pc = "main"
    /\ LET c == ReadConfig IN
       IF ~Truthy(c.serpapi_key)
       THEN \* print(..., file=sys.stderr); sys.exit(1)
            /\ pc' = "exit"
            /\ stderr' = Append(stderr, "ERROR: SERPAPI_KEY not set in environment (.env).")
            /\ exit_code' = 1
            /\ conf' = [NoConf EXCEPT !.serpapi_key = c.serpapi_key]
       ELSE IF ~AllMailSettings(c)
       THEN \* line 175 reads `key`, a name main never binds
            /\ Raise("NameError: name 'key' is not defined")
            /\ conf' = c
       ELSE /\ pc' = "search"
            /\ conf' = c
            /\ UNCHANGED <<stderr, exit_code>>
    /\ UNCHANGED <<env, ki, page, q, jobs, all_rows, seen, top_rows, requests,
                   delivered, csv_file, connections, sent, stdout>>

(***************************************************************************)
(* search_jobs                                                             *)
(***************************************************************************)
LoopDone == ki > Len(KEYWORDS)

\* a variant that logs the failure and carries on with the next pair
SwallowSearchFailure ==
    /\ stderr' = Append(stderr, "serpapi: request failed")
    /\ UNCHANGED <<pc, exit_code>>
\* serpapi.search raises; search_jobs and main catch nothing.
OnSearchFailure == Raise("serpapi: request failed")

\* Lines 49-58: the for statements bind q and page, search_jobs builds params
\* and calls serpapi.search, which either raises or answers.
SearchRequest ==
    /\ pc = "search"
    /\ jobs = <<>>
    /\ ~LoopDone
    /\ q' = KEYWORDS[ki]
    /\ requests' = Append(requests, RequestParams(KEYWORDS[ki], page, conf.serpapi_key))
    /\ \/ /\ OnSearchFailure
          /\ UNCHANGED <<ki, page, jobs, delivered>>
       \/ /\ \E results \in Responses :
               LET found == GetOr(results, "jobs_results", <<>>) IN
               /\ delivered + Len(found) <= MaxListings
               /\ jobs' = found
               /\ delivered' = delivered + Len(found)
          /\ IF page + 1 < PAGES_PER_QUERY
             THEN page' = page + 1 /\ ki' = ki
             ELSE page' = 0 /\ ki' = ki + 1
          /\ UNCHANGED <<pc, stderr, exit_code>>
    /\ UNCHANGED <<env, conf, all_rows, seen, top_rows, csv_file, connections,
                   sent, stdout>>

\* Lines 59-100: one pass of `for j in jobs`.
Visit(j) ==
    IF Key(j) \in seen
    THEN UNCHANGED <<seen, all_rows>>
    ELSE /\ seen' = seen \cup {Key(j)}
         /\ IF ~(IsEntry(j) \/ StrongMatch(j))
            THEN UNCHANGED all_rows
            ELSE all_rows' = Append(all_rows, Row(j, q))

ProcessListing ==
    /\ pc = "search"
    /\ jobs # <<>>
    /\ Visit(Head(jobs))
    /\ jobs' = Tail(jobs)
    /\ UNCHANGED <<pc, env, conf, ki, page, q, top_rows, requests, delivered,
                   csv_file, connections, sent, stdout, stderr, exit_code>>

(***************************************************************************)
(* main, lines 179-194: rows = search_jobs(...), sort, cut                 *)
(***************************************************************************)
TopRows(rows) == Take(sorted(rows), DigestSize)

Rank ==
    /\ pc = "search"
    /\ jobs = <<>>
    /\ LoopDone
    /\ top_rows' = TopRows(all_rows)
    /\ pc' = "send"
    /\ UNCHANGED <<env, conf, ki, page, q, jobs, all_rows, seen, requests, delivered,
                   csv_file, connections, sent, stdout, stderr, exit_code>>

(***************************************************************************)
(* main, lines 196-197: send_email(top_rows, ...) and the final print      *)
(***************************************************************************)
\* What the SMTP server is handed with server.send_message(msg).
Outbox(msg) == Append(sent, msg)

SendEmail ==
    /\ pc = "send"
    /\ \E csv_ok \in BOOLEAN, smtp_ok \in BOOLEAN :
         IF ~csv_ok
         THEN \* open(csv_path, "w") fails
              /\ Raise("OSError")
              /\ UNCHANGED <<csv_file, connections, sent, stdout>>
         ELSE /\ csv_file' = CsvFile(top_rows)
              /\ IF ~IsInt(conf.smtp_port)
                 THEN /\ Raise("ValueError: invalid literal for int()")
                      /\ UNCHANGED <<connections, sent, stdout>>
                 ELSE /\ connections' = connections + 1
                      /\ IF ~smtp_ok
                         THEN \* connect, starttls, login or send_message fails
                              /\ Raise("smtplib: transport failed")
                              /\ UNCHANGED <<sent, stdout>>
                         ELSE /\ sent' = Outbox(Message(top_rows, conf.sender,
                                                        conf.recipient, CsvFile(top_rows)))
                              /\ stdout' = Append(stdout,
                                     [text |-> "Sent {} results to {}.",
                                      count |-> Len(top_rows), to |-> conf.recipient])
                              /\ pc' = "exit"
                              /\ exit_code' = 0
                              /\ UNCHANGED stderr
    /\ UNCHANGED <<env, conf, ki, page, q, jobs, all_rows, seen, top_rows, requests,
                   delivered>>

Next ==
    \/ MainConfig
    \/ SearchRequest
    \/ ProcessListing
    \/ Rank
    \/ SendEmail

Spec == Init /\ [][Next]_vars

(***************************************************************************)
(* Ranking on long inputs.  The second specification starts where           *)
(* search_jobs is about to return a long all_rows, long enough for          *)
(* rows_sorted[:40] to cut.                                                 *)
(***************************************************************************)
\* rows in all_rows when search_jobs returns
MaxRows == 42

\* (title, posted_at) of the job records the long runs are made of
RankKinds ==
    << [title |-> <<"\\","b","j","u","n","i","o","r","\\","b"," ","b","u","y","e","r">>,         posted_at |-> <<"J","u","s","t"," ","p","o","s","t","e","d">>],
       [title |-> <<"\\","b","p","r","o","c","u","r","e","m","e","n","t","\\","b">>,          posted_at |-> <<"1"," ","d","a","y"," ","a","g","o">>],
       [title |-> <<"B","u","y","e","r">>,                    posted_at |-> <<>>],
       [title |-> <<"B","u","y","e","r">>,                    posted_at |-> <<"3"," ","H","o","u","r","s"," ","a","g","o">>],
       [title |-> <<"\\","b","j","u","n","i","o","r","\\","b"," ","\\","b","p","r","o","c","u","r","e","m","e","n","t","\\","b">>, posted_at |-> <<"j","u","s","t"," ","n","o","w">>],
       [title |-> <<"B","u","y","e","r">>,                    posted_at |-> <<"2"," ","w","e","e","k","s"," ","a","g","o">>] >>

Digits == <<"0","1","2","3","4","5","6","7","8","9">>

\* The i-th job record of a long run: relevant through its description, with
\* a job_id of its own.
RankRaw(i, kind) ==
    [title |-> RankKinds[kind].title, company_name |-> <<"A","c","m","e">>,
     description |-> <<"\\","b","e","n","t","r","y","\\","b">>,
     job_id |-> <<"j", Digits[(i \div 10) + 1], Digits[(i % 10) + 1]>>,
     detected_extensions |-> [posted_at |-> RankKinds[kind].posted_at]]

\* all_rows after n distinct job records whose kinds cycle with the given
\* stride and offset, all found by the last request.
RankRows(n, stride, offset) ==
    [i \in 1..n |->
        Row(RankRaw(i, ((i * stride + offset) % Len(RankKinds)) + 1),
            KEYWORDS[Len(KEYWORDS)])]

AllRequests ==
    [i \in 1..(Len(KEYWORDS) * PAGES_PER_QUERY) |->
        RequestParams(KEYWORDS[((i - 1) \div PAGES_PER_QUERY) + 1],
                      (i - 1) % PAGES_PER_QUERY, BaseEnv.SERPAPI_KEY)]

InitRank ==
    /\ pc = "search"
    /\ env = BaseEnv
    /\ conf = [serpapi_key |-> BaseEnv.SERPAPI_KEY, sender |-> BaseEnv.MAIL_FROM,
               recipient |-> BaseEnv.MAIL_TO, smtp_host |-> BaseEnv.SMTP_HOST,
               smtp_port |-> BaseEnv.SMTP_PORT, username |-> BaseEnv.SMTP_USERNAME,
               password |-> BaseEnv.SMTP_PASSWORD]
    /\ ki = Len(KEYWORDS) + 1 /\ page = 0
    /\ q = KEYWORDS[Len(KEYWORDS)]
    /\ jobs = <<>>
    /\ \E n \in 0..MaxRows, stride \in 1..Len(RankKinds), offset \in 0..(Len(RankKinds) - 1) :
         /\ all_rows = RankRows(n, stride, offset)
         /\ seen = {RowKey(all_rows[i]) : i \in 1..n}
         /\ delivered = n
    /\ top_rows = <<>>
    /\ requests = AllRequests
    /\ csv_file = None
    /\ connections = 0
    /\ sent = <<>>
    /\ stdout = <<>>
    /\ stderr = <<>>
    /\ exit_code = 0

NextRank ==
    \/ Rank
    \/ SendEmail

SpecRank == InitRank /\ [][NextRank]_vars

(***************************************************************************)
(* Properties                                                              *)
(***************************************************************************)
Identity(r) == <<r.title, r.company, r.link>>
Identities(rows) == {Identity(rows[k]) : k \in 1..Len(rows)}
EntryIn(s)  == Search(ENTRY_LEVEL_PATTERN, s)
DomainIn(s) == Search(PREFERRED_TERMS, s)
Atoms(s) == {s[k] : k \in 1..Len(s)}
\* a step of `for j in jobs`: the record at the head of jobs is visited
VisitStep == pc = "search" /\ jobs # <<>> /\ jobs' = Tail(jobs)
\* job records visited so far
Visited == delivered - Len(jobs)
SearchFailed == "serpapi: request failed" \in Atoms(stderr)

\* C1: at every moment of a run, no two rows of all_rows have the same
\* identity key (title, company, link), whatever the API returned.
C1_DistinctKeys ==
    \A a, b \in 1..Len(all_rows) :
        a # b => Identity(all_rows[a]) # Identity(all_rows[b])

\* Two records with one identity key were visited and one row was kept.
C1_Witness == Visited >= 2 /\ Cardinality(seen) = 1 /\ Len(all_rows) = 1

\* C2, as claimed: a row is kept only for a record whose title or description
\* has the entry-level signal or whose title has the domain signal, and every
\* record that yields no row has neither signal in its title or description.
C2_Original ==
    [][VisitStep =>
         LET j == Head(jobs) IN
         /\ Len(all_rows') > Len(all_rows) =>
               EntryIn(Title(j)) \/ EntryIn(Desc(j)) \/ DomainIn(Title(j))
         /\ all_rows' = all_rows =>
               /\ ~EntryIn(Title(j)) /\ ~EntryIn(Desc(j))
               /\ ~DomainIn(Title(j)) /\ ~DomainIn(Desc(j))]_vars

\* C2, amended: a row is kept only for a record whose title or description
\* has the entry-level signal or whose title has the domain signal, and every
\* record that yields no row although its identity key is new has no
\* entry-level signal in title or description and no domain signal in its
\* title.
C2_FilterSound ==
    [][VisitStep =>
         LET j == Head(jobs) IN
         /\ Len(all_rows') > Len(all_rows) =>
               EntryIn(Title(j)) \/ EntryIn(Desc(j)) \/ DomainIn(Title(j))
         /\ (all_rows' = all_rows
             /\ <<Strip(Title(j)), Strip(Company(j)), Link(j)>> \notin seen) =>
               ~EntryIn(Title(j)) /\ ~EntryIn(Desc(j)) /\ ~DomainIn(Title(j))]_vars

\* Some record was kept and some record with a new key was filtered out.
C2_Witness == all_rows # <<>> /\ \E key \in seen : key \notin Identities(all_rows)

\* C3: once the record titled "Junior Supply Chain Analyst" of company "Acme"
\* with link "http://x/1" has been visited, all_rows holds its row, and the
\* row scores at least 3 points.
C3_JuniorRetained ==
    LET key == <<<<"J","u","n","i","o","r"," ","S","u","p","p","l","y"," ","C","h","a","i","n"," ","A","n","a","l","y","s","t">>, <<"A","c","m","e">>, <<"h","t","t","p",":","/","/","x","/","1">>>> IN
    key \in seen =>
        \E k \in 1..Len(all_rows) :
            Identity(all_rows[k]) = key /\ -score(all_rows[k]) >= 3

\* The points of the claim: 2 for the domain signal in the title, 1 for the
\* entry-level signal in the title, 3 for "just" in the lowercase posted text
\* or else 2 for "day" or "hour".
C4_Points(r) ==
    (IF DomainIn(r.title) THEN 2 ELSE 0)
    + (IF EntryIn(r.title) THEN 1 ELSE 0)
    + (IF Contains(<<"j","u","s","t">>, Lower(r.posted)) THEN 3
       ELSE IF Contains(<<"d","a","y">>, Lower(r.posted)) \/ Contains(<<"h","o","u","r">>, Lower(r.posted))
            THEN 2 ELSE 0)

RECURSIVE C4_PointsOf(_)
C4_PointsOf(rows) ==
    IF rows = <<>> THEN <<>>
    ELSE Append(C4_PointsOf(SubSeq(rows, 1, Len(rows) - 1)), C4_Points(rows[Len(rows)]))

\* the place of row i by descending points, ties by position
C4_Place(pts, i) ==
    Cardinality({k \in 1..Len(pts) : pts[k] > pts[i]})
    + Cardinality({k \in 1..(i - 1) : pts[k] = pts[i]}) + 1

C4_Ranked(rows, pts, top) ==
    LET m == IF Len(rows) < 40 THEN Len(rows) ELSE 40 IN
    /\ Len(top) = m
    /\ \A i \in 1..Len(rows) : C4_Place(pts, i) <= m => top[C4_Place(pts, i)] = rows[i]
    /\ sent # <<>> =>
          /\ stdout = <<[text |-> "Sent {} results to {}.", count |-> m,
                         to |-> conf.recipient]>>
          /\ Len(sent[1].attachment.payload) = m + 1

ConfigPassed == Truthy(conf.serpapi_key) /\ AllMailSettings(conf)

C5_OneMessage ==
    /\ Len(sent) = 1
    /\ all_rows # <<>> =>
          /\ "</table>" \in Atoms(sent[1].html)
          /\ "<p>No matching roles found today.</p>" \notin Atoms(sent[1].html)
    /\ all_rows = <<>> =>
          /\ "<p>No matching roles found today.</p>" \in Atoms(sent[1].html)
          /\ "</table>" \notin Atoms(sent[1].html)
          /\ sent[1].attachment.payload =
                << <<"title", "company", "location", "posted", "source", "link",
                     "query", "salary">> >>

C6_Escaped ==
    \A k \in 1..Len(sent) : Atoms(sent[k].html) \cap {"<", ">", "&", "\""} = {}

\* C7: with a required setting missing, main ends with a non-zero status and
\* one of its configuration messages, having made no search request and
\* opened no SMTP connection.
C7_ConfigError ==
    (pc # "main" /\ (~Truthy(ReadConfig.serpapi_key) \/ ~AllMailSettings(ReadConfig))) =>
        /\ pc = "exit"
        /\ exit_code # 0
        /\ stderr # <<>>
        /\ stderr[Len(stderr)] \in {"ERROR: SERPAPI_KEY not set in environment (.env).",
                                    "ERROR: Missing email SMTP settings in .env"}
        /\ requests = <<>>
        /\ connections = 0

\* C8: the i-th request is the one of the i-th (keyword, page) pair: its query
\* text is the keyword, its location the configured one, its credential the
\* serpapi_key handed to search_jobs, and it carries a page parameter.
C8_RequestsKeyed ==
    /\ Len(requests) <= Len(KEYWORDS) * PAGES_PER_QUERY
    /\ \A i \in 1..Len(requests) :
          LET r == requests[i] IN
          /\ r.q = KEYWORDS[((i - 1) \div PAGES_PER_QUERY) + 1]
          /\ r.location = LOCATION
          /\ r.api_key = conf.serpapi_key
          /\ DOMAIN r \ {"q", "location", "api_key"} # {}

\* C9: after a failed search request the run is over with status 1, nothing
\* was sent and no SMTP connection opened, and no request follows; a response
\* without job records changes neither all_rows nor seen and leaves
\* search_jobs at the next (keyword, page) pair.
C9_SearchFailure ==
    /\ [](SearchFailed =>
            pc = "exit" /\ exit_code = 1 /\ sent = <<>> /\ connections = 0)
    /\ [][SearchFailed => requests' = requests]_vars
    /\ [][(Len(requests') = Len(requests) + 1 /\ ~SearchFailed' /\ jobs' = <<>>) =>
            /\ pc' = "search"
            /\ all_rows' = all_rows /\ seen' = seen
            /\ (ki' - 1) * PAGES_PER_QUERY + page' = Len(requests) + 1]_vars

\* A request failed after rows had been collected.
C9_Witness == SearchFailed /\ all_rows # <<>>

\* C10, as claimed: whenever a visited record has the entry-level signal in
\* title or description or the domain signal in its title, all_rows holds a
\* row with its identity key afterwards.
C10_Original ==
    [][VisitStep =>
         LET j == Head(jobs) IN
         (EntryIn(Title(j)) \/ EntryIn(Desc(j)) \/ DomainIn(Title(j))) =>
             <<Strip(Title(j)), Strip(Company(j)), Link(j)>> \in Identities(all_rows')]_vars

\* C10, amended: the same, unless an earlier record with the same identity
\* key failed the filter (the key is in seen and has no row); rows once in
\* all_rows stay.
C10_NoLoss ==
    /\ [][VisitStep =>
            LET j == Head(jobs)
                key == <<Strip(Title(j)), Strip(Company(j)), Link(j)>> IN
            (/\ EntryIn(Title(j)) \/ EntryIn(Desc(j)) \/ DomainIn(Title(j))
             /\ ~(key \in seen /\ key \notin Identities(all_rows))) =>
                key \in Identities(all_rows')]_vars
    /\ [][/\ Len(all_rows) <= Len(all_rows')
          /\ SubSeq(all_rows', 1, Len(all_rows)) = all_rows]_vars

\* Two relevant records with different keys were visited and both kept.
C10_Witness == Len(all_rows) = 2 /\ Cardinality(seen) = 2

=============================================================================
